---------------------------- MODULE Spec2Model ----------------------------
(***************************************************************************)
(* Model of UnorderedMap (src/unordered_map/unordered_map.hpp): a          *)
(* std::list of entries (value_list_) indexed by a std::vector of bucket   *)
(* descriptors (bucket_vector_), with a float max_load_factor_.            *)
(*                                                                         *)
(* List nodes live on one heap shared by all map objects.  A handle        *)
(* (iterator) is a node address, a positive integer, or the past-the-end   *)
(* sentinel of one map object, a negative integer.  Reading through a      *)
(* handle that is neither a node of the list nor handled by an end test    *)
(* is undefined behaviour; its outcome is a nondeterministic choice.       *)
(***************************************************************************)
EXTENDS Integers, Sequences, FiniteSets, TLC

\* ------------------------------------------------------------------ bounds
MaxKey == 2
MaxVal == 1
MaxSize == 3
MaxArg == 2

\* ------------------------------------------------------- program constants
kDefaultBucketCount == 8

Maps == {"s", "c"}
Keys == 0 .. MaxKey
Vals == 1 .. MaxVal
Args == 0 .. MaxArg
\* max_load_factor_ values, as exact fractions <<numerator, denominator>>
LoadFactors == {<<1, 2>>, <<1, 1>>, <<2, 1>>}
DefaultMaxLoadFactor == <<1, 1>>
NoHandle == 0

VARIABLES
  alive,    \* the set of map objects that are constructed
  maps,     \* map object -> [value_list, bucket_vector, max_load_factor]
  node,     \* heap: address of a live list node -> [key, val]
  crashed,  \* the process was terminated by a fault
  ret,      \* the value the last call returned
  pc,       \* position of the driving scenario ("run": free driver)
  arg       \* the inputs the driving scenario was started with

vars == <<alive, maps, node, crashed, ret, pc, arg>>

\* ----------------------------------------------------------------- helpers
Max(a, b) == IF a >= b THEN a ELSE b

\* std::ceil(a / (n/d)) for a size a and a load factor n/d > 0
CeilDiv(a, f) == ((a * f[2]) + f[1] - 1) \div f[1]

\* The past-the-end iterator of map object m's own list.
End(m) == IF m = "s" THEN -1 ELSE -2

Range(s) == {s[i] : i \in 1 .. Len(s)}

\* Position of handle h in list l (0 when h is no node of l).
Pos(l, h) == IF \E i \in 1 .. Len(l) : l[i] = h
             THEN CHOOSE i \in 1 .. Len(l) : l[i] = h
             ELSE 0

\* ++it on a node of list l of map m.
NextIt(m, l, h) == IF Pos(l, h) = Len(l) THEN End(m) ELSE l[Pos(l, h) + 1]

RemoveAt(l, i) == SubSeq(l, 1, i - 1) \o SubSeq(l, i + 1, Len(l))

\* hasher{}(key): std::hash of an integer key is the key itself.
hasher(key) == key

get_hash(key, modulo) == hasher(key) % modulo

Bucket(begin, size) == [size |-> size, begin |-> begin]

size(M) == Len(M.value_list)

bucket_count(M) == Len(M.bucket_vector)

\* size() / bucket_count(): a division of two size_type values, converted
\* to float afterwards.
load_factor(M) == size(M) \div bucket_count(M)

\* load_factor() > max_load_factor_
ExceedsMaxLoad(M) ==
  load_factor(M) * M.max_load_factor[2] > M.max_load_factor[1]

get_new_bucket_count_requested(M, new_bucket_count) == new_bucket_count

get_new_bucket_count(M, new_bucket_count) ==
  Max(CeilDiv(size(M), M.max_load_factor), new_bucket_count)

\* rehash(new_bucket_count): a fresh vector of empty buckets, then one walk
\* of the list in its current order (lines 292-300): every entry adds one to
\* the size of the bucket it hashes to, and the first entry seen for a
\* bucket becomes its begin.  The entries are not moved.
rehash_last_head(m, M, nd, n) ==
  LET new_bucket_count == get_new_bucket_count(M, n)
      l == M.value_list
      seen(b) == {i \in 1 .. Len(l) : get_hash(nd[l[i]].key, new_bucket_count) + 1 = b}
      last(S) == CHOOSE i \in S : \A j \in S : i >= j
  IN [M EXCEPT !.bucket_vector =
        [b \in 1 .. new_bucket_count |->
           IF seen(b) = {} THEN Bucket(End(m), 0)
           ELSE Bucket(l[last(seen(b))], Cardinality(seen(b)))]]

rehash(m, M, nd, n) ==
  LET new_bucket_count == get_new_bucket_count(M, n)
      l == M.value_list
      seen(b) == {i \in 1 .. Len(l) : get_hash(nd[l[i]].key, new_bucket_count) + 1 = b}
      first(S) == CHOOSE i \in S : \A j \in S : i <= j
  IN [M EXCEPT !.bucket_vector =
        [b \in 1 .. new_bucket_count |->
           IF seen(b) = {} THEN Bucket(End(m), 0)
           ELSE Bucket(l[first(seen(b))], Cardinality(seen(b)))]]

\* Mutant of rehash_if_necessary: the map never grows.
rehash_if_necessary_never(m, M, nd) == M

\* Precondition: bucket_count(M) > 0 (load_factor divides by it).
rehash_if_necessary(m, M, nd) ==
  IF ExceedsMaxLoad(M) THEN rehash(m, M, nd, bucket_count(M) * 2) ELSE M

\* Mutant of reserve: the index is rebuilt for one entry.
reserve_one(m, M, nd, new_size) ==
  IF new_size > size(M)
  THEN rehash(m, M, nd, CeilDiv(1, M.max_load_factor))
  ELSE M

reserve(m, M, nd, new_size) ==
  IF new_size > size(M)
  THEN rehash(m, M, nd, CeilDiv(new_size, M.max_load_factor))
  ELSE M

\* A map object before its constructor body runs: empty list, empty vector.
Raw(f) == [value_list |-> <<>>, bucket_vector |-> <<>>, max_load_factor |-> f]

\* UnorderedMap(): max_load_factor_(1.0), reserve(kDefaultBucketCount).
DefaultMap(m) == reserve(m, Raw(DefaultMaxLoadFactor), << >>, kDefaultBucketCount)

\* ------------------------------------------------------- the bucket scan
\* The loop shared by insert, emplace (end_test: it != value_list_.end())
\* and find (no end test): start at bucket.begin, visit at most bucket.size
\* handles.  "ub": the loop reads through a handle that is no node of the
\* map's own list.
RECURSIVE scan(_, _, _, _, _, _, _, _)
scan(m, l, nd, it, it_shift, bsize, key, end_test) ==
  IF it_shift >= bsize THEN [kind |-> "notfound", h |-> End(m)]
  ELSE IF end_test /\ it = End(m) THEN [kind |-> "notfound", h |-> End(m)]
  ELSE IF Pos(l, it) = 0 THEN [kind |-> "ub", h |-> it]
  ELSE IF nd[it].key = key THEN [kind |-> "found", h |-> it]
  ELSE scan(m, l, nd, NextIt(m, l, it), it_shift + 1, bsize, key, end_test)

\* ---------------------------------------------------------- program state
\* A program state st: [alive, maps, node, crashed, ret].
\* ret, the value the last call returned: "void"; "iter", a handle h;
\* "pair", a handle h and the inserted flag ok; "ref", the entry h whose
\* value v is referred to (ok: the entry was added by the call); "throw", an
\* exception; "fault", no return.
RetVal(kind, h, ok, v) == [kind |-> kind, h |-> h, ok |-> ok, v |-> v]

Void == RetVal("void", NoHandle, TRUE, 0)

\* Handles still held somewhere in st: bucket heads of constructed maps and
\* the handle last returned to the caller, in a fixed order.
HeldSeq(st) ==
  LET heads(m) == IF m \in st.alive
                  THEN [b \in 1 .. Len(st.maps[m].bucket_vector) |->
                          st.maps[m].bucket_vector[b].begin]
                  ELSE << >>
  IN heads("s") \o heads("c") \o <<st.ret.h>>

Live(st) == st.maps["s"].value_list \o st.maps["c"].value_list

\* Held addresses of nodes that were freed.
Dangling(st) == {h \in Range(HeldSeq(st)) : h > 0 /\ h \notin DOMAIN st.node}

\* Addresses the allocator may hand out for a new node: one never seen
\* before, or the address of a freed node (only a held one can be told
\* from a new one).
NewAddrs(st) ==
  LET used == DOMAIN st.node \cup Range(HeldSeq(st))
      fresh == CHOOSE a \in 1 .. Cardinality(used) + 1 : a \notin used
  IN {fresh} \cup Dangling(st)

\* The process is terminated inside a call (a fault).
Fault(st) ==
  [st EXCEPT !.crashed = TRUE, !.ret = RetVal("fault", NoHandle, FALSE, 0)]

\* What the scan of key's bucket in M, the members of m in st, can yield.
\* Without undefined behaviour it is the one result of the loop.  With it,
\* the build may fault, or read stale or foreign memory and go on to any
\* answer: the loop returns the handle it stands at when the key compares
\* equal, which can be a node of either list, a freed address (one still
\* held, or one no handle holds any more) or the past-the-end handle of
\* the other map's list; reaching the map's own end() is the answer
\* not-found.
ScanOutcomes(st, m, M, key, end_test) ==
  LET bucket == M.bucket_vector[get_hash(key, bucket_count(M)) + 1]
      r == scan(m, M.value_list, st.node, bucket.begin, 0, bucket.size, key, end_test)
      stray == (DOMAIN st.node \cup Range(HeldSeq(st)) \cup NewAddrs(st)
                  \cup {End(o) : o \in st.alive}) \ {NoHandle, End(m)}
  IN IF r.kind # "ub"
     THEN {[kind |-> r.kind, h |-> r.h]}
     ELSE {[kind |-> "crash", h |-> NoHandle],
           [kind |-> "notfound", h |-> End(m)]}
          \cup {[kind |-> "found", h |-> h] : h \in stray}

\* ------------------------------------------------------------ operations
\* value_list_.push_back(value) at address a, then lines 114-117: the bucket
\* adopts the new node when it was empty, and counts it.
\* Mutant of push_back_entry: an entry appended to a non-empty bucket is
\* not counted.
push_back_entry_uncounted(M, a, key) ==
  LET hash == get_hash(key, bucket_count(M)) + 1
      bucket == M.bucket_vector[hash]
  IN [M EXCEPT !.value_list = Append(@, a),
               !.bucket_vector[hash] =
                  Bucket(IF bucket.size = 0 THEN a ELSE bucket.begin,
                         IF bucket.size = 0 THEN 1 ELSE bucket.size)]

push_back_entry(M, a, key) ==
  LET hash == get_hash(key, bucket_count(M)) + 1
      bucket == M.bucket_vector[hash]
  IN [M EXCEPT !.value_list = Append(@, a),
               !.bucket_vector[hash] =
                  Bucket(IF bucket.size = 0 THEN a ELSE bucket.begin,
                         bucket.size + 1)]

\* Mutant of insert_after_scan: a duplicate key overwrites the stored value.
insert_after_scan_assign(st, m, M1, k, v, r) ==
  CASE r.kind = "crash" -> {Fault(st)}
    [] r.kind = "found" ->
         {[st EXCEPT !.maps[m] = M1, !.node[r.h].val = v,
                     !.ret = RetVal("pair", r.h, FALSE, 0)]}
    [] r.kind = "notfound" ->
         {[st EXCEPT !.node = (a :> [key |-> k, val |-> v]) @@ @,
                     !.maps[m] = push_back_entry(M1, a, k),
                     !.ret = RetVal("pair", a, TRUE, 0)] : a \in NewAddrs(st)}

\* The states one result r of the bucket scan leads insert to.
insert_after_scan(st, m, M1, k, v, r) ==
  CASE r.kind = "crash" -> {Fault(st)}
    [] r.kind = "found" ->
         {[st EXCEPT !.maps[m] = M1, !.ret = RetVal("pair", r.h, FALSE, 0)]}
    [] r.kind = "notfound" ->
         {[st EXCEPT !.node = (a :> [key |-> k, val |-> v]) @@ @,
                     !.maps[m] = push_back_entry(M1, a, k),
                     !.ret = RetVal("pair", a, TRUE, 0)] : a \in NewAddrs(st)}

\* The body shared by insert(const value_type&), insert(value_type&&) and
\* emplace: rehash_if_necessary, scan the key's bucket, append when the scan
\* finds nothing.  With no bucket, load_factor() divides by zero.
insert(st, m, k, v) ==
  IF bucket_count(st.maps[m]) = 0
  THEN {Fault(st)}
  ELSE LET M1 == rehash_if_necessary(m, st.maps[m], st.node)
       IN UNION {insert_after_scan(st, m, M1, k, v, r) :
                   r \in ScanOutcomes(st, m, M1, k, TRUE)}

\* Mutant of erase_bucket: the bucket's size is not decremented.
erase_bucket_keeps_size(m, M, nd, pos) ==
  LET hash == get_hash(nd[pos].key, bucket_count(M)) + 1
      bucket == M.bucket_vector[hash]
      begin == IF bucket.begin = pos
               THEN IF bucket.size = 1 THEN End(m)
                    ELSE NextIt(m, M.value_list, pos)
               ELSE bucket.begin
  IN [M EXCEPT !.bucket_vector[hash] = Bucket(begin, bucket.size)]

\* erase(iterator pos), pos a node of the list: lines 200-210.
erase_bucket(m, M, nd, pos) ==
  LET hash == get_hash(nd[pos].key, bucket_count(M)) + 1
      bucket == M.bucket_vector[hash]
      begin == IF bucket.begin = pos
               THEN IF bucket.size = 1 THEN End(m)
                    ELSE NextIt(m, M.value_list, pos)
               ELSE bucket.begin
  IN [M EXCEPT !.bucket_vector[hash] = Bucket(begin, bucket.size - 1)]

\* Mutant of erase: the entry is unlinked and the first entry of the list
\* is returned.
erase_returns_begin(st, m, pos) ==
  LET M1 == erase_bucket(m, st.maps[m], st.node, pos)
      l == RemoveAt(M1.value_list, Pos(M1.value_list, pos))
  IN [st EXCEPT !.maps[m] = [M1 EXCEPT !.value_list = l],
                !.node = [a \in DOMAIN @ \ {pos} |-> @[a]],
                !.ret = RetVal("iter", IF l = << >> THEN End(m) ELSE l[1], TRUE, 0)]

erase(st, m, pos) ==
  LET M1 == erase_bucket(m, st.maps[m], st.node, pos)
  IN [st EXCEPT !.maps[m] = [M1 EXCEPT !.value_list = RemoveAt(@, Pos(@, pos))],
                !.node = [a \in DOMAIN @ \ {pos} |-> @[a]],
                !.ret = RetVal("iter", NextIt(m, M1.value_list, pos), TRUE, 0)]

\* find(key): the scan without the end test.  With no bucket, get_hash
\* takes a remainder by zero.
find(st, m, k) ==
  IF bucket_count(st.maps[m]) = 0
  THEN {[kind |-> "crash", h |-> NoHandle]}
  ELSE ScanOutcomes(st, m, st.maps[m], k, FALSE)

\* Mutant of find_call: the lookup first grows the map when it is due.
find_call_rehashing(st, m, k) ==
  IF bucket_count(st.maps[m]) = 0 THEN {Fault(st)}
  ELSE {IF r.kind = "crash" THEN Fault(st)
        ELSE [st EXCEPT !.maps[m] = rehash_if_necessary(m, @, st.node),
                        !.ret = RetVal("iter", r.h, TRUE, 0)]
        : r \in find(st, m, k)}

\* A call of find(key): the states it returns in.
find_call(st, m, k) ==
  {IF r.kind = "crash" THEN Fault(st)
   ELSE [st EXCEPT !.ret = RetVal("iter", r.h, TRUE, 0)]
   : r \in find(st, m, k)}

\* Mutant of insert_append_fails: the bucket counts the entry before the
\* append is tried.
insert_append_fails_counted(st, m, k, v) ==
  IF bucket_count(st.maps[m]) = 0
  THEN {Fault(st)}
  ELSE LET M1 == rehash_if_necessary(m, st.maps[m], st.node)
           hash == get_hash(k, bucket_count(M1)) + 1
       IN {CASE r.kind = "crash" -> Fault(st)
             [] r.kind = "found" ->
                  [st EXCEPT !.maps[m] = M1, !.ret = RetVal("pair", r.h, FALSE, 0)]
             [] r.kind = "notfound" ->
                  [st EXCEPT !.maps[m] = [M1 EXCEPT !.bucket_vector[hash].size = @ + 1],
                             !.ret = RetVal("throw", NoHandle, FALSE, 0)]
           : r \in ScanOutcomes(st, m, M1, k, TRUE)}

\* insert or emplace of (k, v) when the append to the list (push_back, line
\* 112; emplace_back, lines 136 and 180) throws: rehash_if_necessary and the
\* scan have run, the list is as it was (the append has the strong
\* guarantee), lines 114-119 are not reached, and the exception leaves the
\* call (through the handler of lines 193-196 in emplace).  A key the scan
\* finds is returned before any append.
insert_append_fails(st, m, k, v) ==
  IF bucket_count(st.maps[m]) = 0
  THEN {Fault(st)}
  ELSE LET M1 == rehash_if_necessary(m, st.maps[m], st.node)
       IN {CASE r.kind = "crash" -> Fault(st)
             [] r.kind = "found" ->
                  [st EXCEPT !.maps[m] = M1, !.ret = RetVal("pair", r.h, FALSE, 0)]
             [] r.kind = "notfound" ->
                  [st EXCEPT !.maps[m] = M1,
                             !.ret = RetVal("throw", NoHandle, FALSE, 0)]
           : r \in ScanOutcomes(st, m, M1, k, TRUE)}

\* T{}: the value operator[] gives a new entry.
DefaultVal == 0

\* at(key): find, then throw std::out_of_range when it returned end().
\* The reference returned is found_it->second: at a handle that is no
\* entry, whatever the memory there holds.
at(st, m, k) ==
  LET referred(h) == IF h \in DOMAIN st.node THEN {st.node[h].val}
                     ELSE Vals \cup {DefaultVal}
  IN UNION {CASE r.kind = "crash" -> {Fault(st)}
              [] r.kind = "notfound" ->
                   {[st EXCEPT !.ret = RetVal("throw", NoHandle, FALSE, 0)]}
              [] r.kind = "found" ->
                   {[st EXCEPT !.ret = RetVal("ref", r.h, FALSE, v)] : v \in referred(r.h)}
            : r \in find(st, m, k)}

\* operator[](key): find, and insert({key, T{}}) when it returned end().
\* ret.v is the value referred to, ret.ok whether the entry was added.
index(st, m, k) ==
  LET referred(u, h) == IF h \in DOMAIN u.node THEN {u.node[h].val}
                        ELSE Vals \cup {DefaultVal}
  IN UNION {CASE r.kind = "crash" -> {Fault(st)}
              [] r.kind = "found" ->
                   {[st EXCEPT !.ret = RetVal("ref", r.h, FALSE, v)]
                    : v \in referred(st, r.h)}
              [] r.kind = "notfound" ->
                   UNION {IF u.crashed THEN {u}
                          ELSE {[u EXCEPT !.ret = RetVal("ref", @.h, @.ok, v)]
                                : v \in referred(u, u.ret.h)}
                          : u \in insert(st, m, k, DefaultVal)}
            : r \in find(st, m, k)}

\* max_load_factor(new_ml): load_factor() divides by bucket_count().
set_max_load_factor(st, m, f) ==
  LET M1 == [st.maps[m] EXCEPT !.max_load_factor = f]
      s1 == [st EXCEPT !.maps[m] = M1, !.ret = Void]
  IN IF bucket_count(M1) = 0
     THEN Fault(s1)
     ELSE IF ExceedsMaxLoad(M1)
          THEN [s1 EXCEPT !.maps[m] = rehash(m, M1, st.node, CeilDiv(size(M1), f))]
          ELSE s1

\* UnorderedMap(const UnorderedMap& other), lines 44-46: insert the entries
\* of other from position i on, in other's order.
RECURSIVE copy_entries(_, _, _, _)
copy_entries(sts, d, other, i) ==
  IF i > Len(other.value_list) THEN sts
  ELSE copy_entries(
         UNION {IF st.crashed THEN {st}
                ELSE insert(st, d, st.node[other.value_list[i]].key,
                            st.node[other.value_list[i]].val) : st \in sts},
         d, other, i + 1)

\* Mutant of copy_construct: d takes over o's list nodes and bucket vector
\* instead of inserting copies of the entries (a shallow copy).
copy_construct_shallow(st, d, o) ==
  {[st EXCEPT !.alive = @ \cup {d}, !.maps[d] = st.maps[o], !.ret = Void]}

\* UnorderedMap(const UnorderedMap& other): d is constructed from o.
copy_construct(st, d, o) ==
  LET other == st.maps[o]
      M0 == reserve(d, Raw(other.max_load_factor), st.node, size(other))
      s0 == [st EXCEPT !.alive = @ \cup {d}, !.maps[d] = M0]
  IN {IF u.crashed THEN u ELSE [u EXCEPT !.ret = Void]
      : u \in copy_entries({s0}, d, other, 1)}

\* Mutant of clear: the bucket vector is left empty (no reserve).
clear_no_reserve(m, M) ==
  [M EXCEPT !.value_list = << >>, !.bucket_vector = << >>]

\* clear(), on the members: both containers emptied, then
\* reserve(kDefaultBucketCount) under the map's own max_load_factor_.
clear(m, M) ==
  reserve(m, [M EXCEPT !.value_list = << >>, !.bucket_vector = << >>],
          << >>, kDefaultBucketCount)

\* m.clear() in st: the nodes of m's list are freed.
clear_map(st, m) ==
  [st EXCEPT !.maps[m] = clear(m, @),
             !.node = [a \in DOMAIN @ \ Range(st.maps[m].value_list) |-> @[a]]]

\* The bucket vector bv of o after the members of o were moved into d.  The
\* vector's elements move as they are.  Whether o's past-the-end iterator,
\* held by the empty buckets, is then d's past-the-end iterator depends on
\* the list implementation (stays: it still is o's).
moved_bucket_vector(bv, d, o, stays) ==
  [b \in DOMAIN bv |->
     IF bv[b].begin = End(o) /\ ~stays THEN Bucket(End(d), bv[b].size)
     ELSE bv[b]]

\* The members of o moved into d, then other.clear(): lines 54-57, 73-77.
move_members(st, d, o) ==
  {[st EXCEPT !.maps[d] = [value_list |-> st.maps[o].value_list,
                           bucket_vector |->
                              moved_bucket_vector(st.maps[o].bucket_vector, d, o, stays),
                           max_load_factor |-> st.maps[o].max_load_factor],
              !.maps[o] = clear(o, @),
              !.ret = Void]
   : stays \in BOOLEAN}

\* UnorderedMap(UnorderedMap&& other): d is constructed from o.
move_construct(st, d, o) ==
  move_members([st EXCEPT !.alive = @ \cup {d}], d, o)

\* operator=(UnorderedMap&& other): d = std::move(o).
move_assign(st, d, o) ==
  IF d = o THEN {[st EXCEPT !.ret = Void]}
  ELSE move_members(clear_map(st, d), d, o)

\* Mutant of copy_construct_fails: the handler does not clear the map.
copy_construct_fails_unwound(st, d, o, i) ==
  LET other == st.maps[o]
      M0 == reserve(d, Raw(other.max_load_factor), st.node, size(other))
      s0 == [st EXCEPT !.alive = @ \cup {d}, !.maps[d] = M0]
      copied == copy_entries({s0}, d, [other EXCEPT !.value_list = SubSeq(@, 1, i - 1)], 1)
      elem == st.node[other.value_list[i]]
      thrown == UNION {IF u.crashed THEN {u}
                       ELSE {w \in insert_append_fails(u, d, elem.key, elem.val) :
                               w.crashed \/ w.ret.kind = "throw"}
                       : u \in copied}
  IN {IF w.crashed THEN w ELSE [w EXCEPT !.alive = @ \ {d}] : w \in thrown}

\* UnorderedMap(const UnorderedMap& other) when the insert of other's i-th
\* entry throws at its append: the entries before it are in, the handler of
\* lines 47-50 runs clear() and rethrows, and no object d comes to exist.
\* maps[d] is left as the handler left the members.
copy_construct_fails(st, d, o, i) ==
  LET other == st.maps[o]
      M0 == reserve(d, Raw(other.max_load_factor), st.node, size(other))
      s0 == [st EXCEPT !.alive = @ \cup {d}, !.maps[d] = M0]
      copied == copy_entries({s0}, d, [other EXCEPT !.value_list = SubSeq(@, 1, i - 1)], 1)
      elem == st.node[other.value_list[i]]
      thrown == UNION {IF u.crashed THEN {u}
                       ELSE {w \in insert_append_fails(u, d, elem.key, elem.val) :
                               w.crashed \/ w.ret.kind = "throw"}
                       : u \in copied}
  IN {IF w.crashed THEN w ELSE [clear_map(w, d) EXCEPT !.alive = @ \ {d}]
      : w \in thrown}

\* The temporary entry of emplace: how often it was allocated, whether it
\* was constructed, how often destroyed and how often deallocated.
NoTemporary ==
  [allocated |-> 0, constructed |-> FALSE, destroyed |-> 0, deallocated |-> 0]

\* Mutant of delete_emplaced: the temporary is destroyed, its storage kept.
delete_emplaced_keeps_storage(tmp) == [tmp EXCEPT !.destroyed = @ + 1]

\* delete_emplaced: destroy, then deallocate.
delete_emplaced(tmp) ==
  [tmp EXCEPT !.destroyed = @ + 1, !.deallocated = @ + 1]

\* Where a call of emplace is made to fail: nowhere, in the construction of
\* the temporary, in the first key comparison of the scan, or in the append.
Failures == {"none", "construct", "compare", "append"}

\* emplace(args...) with its temporary: the states the call can end in,
\* each with the account of the temporary.  The temporary is allocated
\* after rehash_if_necessary and outside the try block; every exception
\* raised inside the block passes through the handler, which calls
\* delete_emplaced and rethrows.  When the construction itself failed the
\* handler destroys an object that was never constructed: undefined
\* behaviour, after which the call may rethrow or fault.
emplace(st, m, k, v, fail) ==
  IF bucket_count(st.maps[m]) = 0
  THEN {[st |-> Fault(st), tmp |-> NoTemporary]}
  ELSE
    LET M1 == rehash_if_necessary(m, st.maps[m], st.node)
        allocated == [NoTemporary EXCEPT !.allocated = 1]
        constructed == [allocated EXCEPT !.constructed = TRUE]
        thrown == [st EXCEPT !.maps[m] = M1,
                             !.ret = RetVal("throw", NoHandle, FALSE, 0)]
        bucket == M1.bucket_vector[get_hash(k, bucket_count(M1)) + 1]
        compares == bucket.size > 0 /\ bucket.begin # End(m)
    IN IF fail = "construct"
       THEN {[st |-> thrown, tmp |-> delete_emplaced(allocated)],
             [st |-> Fault(st), tmp |-> [allocated EXCEPT !.destroyed = 1]]}
       ELSE IF fail = "compare" /\ compares
       THEN {[st |-> thrown, tmp |-> delete_emplaced(constructed)]}
            \cup (IF Pos(M1.value_list, bucket.begin) = 0
                  THEN {[st |-> Fault(st), tmp |-> constructed]}
                  ELSE {})
       ELSE UNION {
         CASE r.kind = "crash" -> {[st |-> Fault(st), tmp |-> constructed]}
           [] r.kind = "found" ->
                {[st |-> u, tmp |-> delete_emplaced(constructed)] :
                   u \in insert_after_scan(st, m, M1, k, v, r)}
           [] r.kind = "notfound" ->
                IF fail = "append"
                THEN {[st |-> thrown, tmp |-> delete_emplaced(constructed)]}
                ELSE {[st |-> u, tmp |-> delete_emplaced(constructed)] :
                        u \in insert_after_scan(st, m, M1, k, v, r)}
         : r \in ScanOutcomes(st, m, M1, k, TRUE)}

RECURSIVE erase_range(_, _, _, _)

\* Mutant of erase_range: the loop body runs at most once.
erase_range_once(st, m, first, last) ==
  IF first = last
  THEN [st EXCEPT !.ret = RetVal("iter", first, TRUE, 0)]
  ELSE LET u == erase(st, m, first)
       IN [u EXCEPT !.ret = RetVal("iter", u.ret.h, TRUE, 0)]

\* erase(first, last): while first != last, first = erase(first); the call
\* returns the iterator first has become.
erase_range(st, m, first, last) ==
  IF first = last
  THEN [st EXCEPT !.ret = RetVal("iter", first, TRUE, 0)]
  ELSE LET u == erase(st, m, first)
       IN erase_range(u, m, u.ret.h, last)

\* The past-the-end handle of the list of the local map temp of the copy
\* assignment.
EndTemp == -3

\* operator=(const UnorderedMap& other): d = o.  The copy temp is built in
\* d's place, swap(temp) gives d the members of temp, and the destructor of
\* temp frees the nodes d held before.  The heads of temp's empty buckets
\* are temp's end(): after the swap of the lists they are d's end() where
\* the past-the-end node is swapped with the nodes, and still the end() of
\* the destroyed temp where it is a part of the list object.
copy_assign(st, d, o) ==
  IF d = o THEN {[st EXCEPT !.ret = Void]}
  ELSE UNION {
         IF temp.crashed THEN {Fault(st)}
         ELSE {[temp EXCEPT
                  !.maps[d].bucket_vector =
                     [b \in DOMAIN @ |->
                        IF @[b].begin = End(d) /\ stays
                        THEN Bucket(EndTemp, @[b].size) ELSE @[b]],
                  !.node = [a \in DOMAIN @ \ Range(st.maps[d].value_list) |-> @[a]],
                  !.ret = Void]
               : stays \in BOOLEAN}
         : temp \in copy_construct(st, d, o)}

\* d = o when the copy of o's i-th entry fails: the constructor of temp
\* clears temp and rethrows, and the exception leaves operator= before the
\* swap.
copy_assign_fails(st, d, o, i) ==
  IF d = o THEN {[st EXCEPT !.ret = Void]}
  ELSE {IF w.crashed THEN Fault(st)
        ELSE [st EXCEPT !.ret = RetVal("throw", NoHandle, FALSE, 0)]
        : w \in copy_construct_fails(st, d, o, i)}

RECURSIVE insert_range(_, _, _)
\* insert(first, last): for (; first != last; ++first) insert(*first); the
\* call returns nothing. range is the sequence of pairs first .. last - 1.
insert_range(st, m, range) ==
  IF range = << >> THEN {[st EXCEPT !.ret = Void]}
  ELSE UNION {IF u.crashed THEN {u} ELSE insert_range(u, m, Tail(range))
                : u \in insert(st, m, range[1].key, range[1].val)}

\* ------------------------------------------------------ address renaming
\* Addresses are opaque: the program only compares them.  States are kept
\* up to renaming, with the nodes of s numbered in list order, then those of
\* c, then the freed addresses still held.
\* The set S of integers as an increasing sequence.
Sorted(S) ==
  [k \in 1 .. Cardinality(S) |->
     CHOOSE i \in S : Cardinality({j \in S : j < i}) = k - 1]

\* Every address in use, in order of first appearance.
Renaming(st) ==
  LET all == Live(st) \o HeldSeq(st) \o Sorted(DOMAIN st.node)
      firsts == {i \in 1 .. Len(all) :
                   all[i] > 0 /\ \A j \in 1 .. i - 1 : all[j] # all[i]}
  IN [k \in 1 .. Cardinality(firsts) |-> all[Sorted(firsts)[k]]]

Renamed(st) ==
  LET order == Renaming(st)
      to(h) == IF h <= 0 THEN h ELSE Pos(order, h)
      map(M) == [M EXCEPT !.value_list = [i \in DOMAIN @ |-> to(@[i])],
                          !.bucket_vector =
                             [b \in DOMAIN @ |-> Bucket(to(@[b].begin), @[b].size)]]
  IN [st EXCEPT !.maps = [m \in Maps |-> map(@[m])],
                !.node = [a \in {to(h) : h \in DOMAIN st.node} |-> @[order[a]]],
                !.ret.h = to(@)]

\* The number Renamed(st) gives the handle h (NoHandle when h is an address
\* that st neither holds nor has a node at).
RenamedHandle(st, h) == IF h <= 0 THEN h ELSE Pos(Renaming(st), h)

State == [alive |-> alive, maps |-> maps, node |-> node,
          crashed |-> crashed, ret |-> ret]

\* The call returns in state st.
Return(st) ==
  LET n == Renamed(st)
  IN /\ alive' = n.alive
     /\ maps' = n.maps
     /\ node' = n.node
     /\ crashed' = n.crashed
     /\ ret' = n.ret

Callable(m) == m \in alive /\ ~crashed

Insert(m, k, v) ==
  Callable(m) /\ \E st \in insert(State, m, k, v) : Return(st)

Erase(m, pos) ==
  /\ Callable(m)
  /\ Pos(maps[m].value_list, pos) > 0
  /\ Return(erase(State, m, pos))

Find(m, k) == Callable(m) /\ \E st \in find_call(State, m, k) : Return(st)

\* insert(value) or emplace(args) whose append to the list throws.
InsertFails(m, k, v) ==
  Callable(m) /\ \E st \in insert_append_fails(State, m, k, v) : Return(st)

Rehash(m, n) ==
  /\ Callable(m)
  /\ Return([State EXCEPT !.maps[m] = rehash(m, @, node, n),
                          !.ret = Void])

InsertRv(m, k, v) ==
  Callable(m) /\ \E st \in insert(State, m, k, v) : Return(st)

Emplace(m, k, v) ==
  Callable(m) /\ \E st \in insert(State, m, k, v) : Return(st)

At(m, k) == Callable(m) /\ \E st \in at(State, m, k) : Return(st)

Index(m, k) == Callable(m) /\ \E st \in index(State, m, k) : Return(st)

\* it->second = v through a handle of a live entry.
WriteValue(m, h, v) ==
  /\ Callable(m)
  /\ Pos(maps[m].value_list, h) > 0
  /\ Return([State EXCEPT !.node[h].val = v,
                          !.ret = Void])

Reserve(m, n) ==
  /\ Callable(m)
  /\ Return([State EXCEPT !.maps[m] = reserve(m, @, node, n),
                          !.ret = Void])

SetMaxLoadFactor(m, f) ==
  Callable(m) /\ Return(set_max_load_factor(State, m, f))

CopyConstruct(d, o) ==
  /\ d \notin alive /\ o \in alive /\ ~crashed
  /\ \E st \in copy_construct(State, d, o) : Return(st)

MoveConstruct(d, o) ==
  /\ d \notin alive /\ o \in alive /\ ~crashed
  /\ \E st \in move_construct(State, d, o) : Return(st)

MoveAssign(d, o) ==
  /\ Callable(d) /\ Callable(o)
  /\ \E st \in move_assign(State, d, o) : Return(st)

\* The copy construction of d from o fails at o's i-th entry.
CopyConstructFails(d, o, i) ==
  /\ d \notin alive /\ o \in alive /\ ~crashed
  /\ \E st \in copy_construct_fails(State, d, o, i) : Return(st)

\* operator=(const UnorderedMap& other): d = o.
CopyAssign(d, o) ==
  /\ Callable(d) /\ Callable(o)
  /\ \E st \in copy_assign(State, d, o) : Return(st)

\* d = o when the copy of o's i-th entry fails.
CopyAssignFails(d, o, i) ==
  /\ Callable(d) /\ Callable(o)
  /\ \E st \in copy_assign_fails(State, d, o, i) : Return(st)

\* ~UnorderedMap(): clear(), then the members are destroyed; m is no map
\* any more.
Destroy(m) ==
  /\ Callable(m)
  /\ Return([clear_map(State, m) EXCEPT !.alive = @ \ {m}, !.ret = Void])

\* m.insert(first, last) over the pairs of range.
InsertRange(m, range) ==
  /\ Callable(m)
  /\ \E st \in insert_range(State, m, range) : Return(st)

\* --------------------------------------------------------- specification
Init ==
  /\ alive = {"s"}
  /\ maps = [m \in Maps |-> IF m = "s" THEN DefaultMap(m) ELSE Raw(DefaultMaxLoadFactor)]
  /\ node = << >>
  /\ crashed = FALSE
  /\ ret = Void
  /\ pc = "run"
  /\ arg = << >>

Room(m) == size(maps[m]) < MaxSize

\* The free driver of one map object, s: any mutating call, any argument.
DoInsert == \E k \in Keys, v \in Vals :
              Room("s") /\ Insert("s", k, v) /\ UNCHANGED <<pc, arg>>

DoInsertRv == \E k \in Keys, v \in Vals :
              Room("s") /\ InsertRv("s", k, v) /\ UNCHANGED <<pc, arg>>

DoEmplace == \E k \in Keys, v \in Vals :
              Room("s") /\ Emplace("s", k, v) /\ UNCHANGED <<pc, arg>>

DoIndex == \E k \in Keys : Room("s") /\ Index("s", k) /\ UNCHANGED <<pc, arg>>

DoErase == \E pos \in Range(maps["s"].value_list) :
              Erase("s", pos) /\ UNCHANGED <<pc, arg>>

DoRehash == \E n \in Args : Rehash("s", n) /\ UNCHANGED <<pc, arg>>

DoReserve == \E n \in Args : Reserve("s", n) /\ UNCHANGED <<pc, arg>>

DoSetMaxLoadFactor == \E f \in LoadFactors :
              SetMaxLoadFactor("s", f) /\ UNCHANGED <<pc, arg>>

Next ==
  \/ DoInsert
  \/ DoInsertRv
  \/ DoEmplace
  \/ DoIndex
  \/ DoErase
  \/ DoRehash
  \/ DoReserve
  \/ DoSetMaxLoadFactor

Spec == Init /\ [][Next]_vars

\* ------------------------------------------------- the scenario of C8
MaxScenKey == 9
MaxScenVal == 2

\* An empty map; insert(a, v1); insert(a, v2); at(a); erase(h); find(a).
InitScenario ==
  /\ alive = {"s"}
  /\ maps = [m \in Maps |-> IF m = "s" THEN DefaultMap(m) ELSE Raw(DefaultMaxLoadFactor)]
  /\ node = << >>
  /\ crashed = FALSE
  /\ ret = Void
  /\ pc = "start"
  /\ \E a \in 0 .. MaxScenKey, v1, v2 \in 1 .. MaxScenVal :
       arg = [a |-> a, v1 |-> v1, v2 |-> v2, h |-> NoHandle]

ScnInsertFirst ==
  /\ pc = "start"
  /\ Insert("s", arg.a, arg.v1)
  /\ pc' = "inserted"
  /\ arg' = [arg EXCEPT !.h = ret'.h]

ScnInsertAgain ==
  /\ pc = "inserted"
  /\ InsertRv("s", arg.a, arg.v2)
  /\ pc' = "again"
  /\ UNCHANGED arg

ScnAt ==
  /\ pc = "again"
  /\ At("s", arg.a)
  /\ pc' = "at"
  /\ UNCHANGED arg

ScnErase ==
  /\ pc = "at"
  /\ Erase("s", arg.h)
  /\ pc' = "erased"
  /\ UNCHANGED arg

ScnFind ==
  /\ pc = "erased"
  /\ Find("s", arg.a)
  /\ pc' = "found"
  /\ UNCHANGED arg

NextScenario == ScnInsertFirst \/ ScnInsertAgain \/ ScnAt \/ ScnErase \/ ScnFind

SpecScenario == InitScenario /\ [][NextScenario]_vars

\* ------------------------------------------------- the scenario of C9
MaxStride == 2

\* N = 10 * default_bucket_count distinct keys.
GrowthN == 10 * kDefaultBucketCount

\* An empty map; the keys stride, 2*stride, ... are inserted one by one.
\* arg counts the inserts made and the growth rehashes among them, and
\* notes whether bucket_count() ever went down.
InitGrowth ==
  /\ alive = {"s"}
  /\ maps = [m \in Maps |-> IF m = "s" THEN DefaultMap(m) ELSE Raw(DefaultMaxLoadFactor)]
  /\ node = << >>
  /\ crashed = FALSE
  /\ ret = Void
  /\ pc = "grow"
  /\ \E d \in 1 .. MaxStride :
       arg = [stride |-> d, i |-> 0, grown |-> 0, monotone |-> TRUE]

GrowInsert ==
  /\ pc = "grow"
  /\ arg.i < GrowthN
  /\ Insert("s", (arg.i + 1) * arg.stride, 1)
  /\ arg' = [arg EXCEPT
               !.i = @ + 1,
               !.grown = IF bucket_count(maps'["s"]) > bucket_count(maps["s"])
                         THEN @ + 1 ELSE @,
               !.monotone = @ /\ bucket_count(maps'["s"]) >= bucket_count(maps["s"])]
  /\ UNCHANGED pc

NextGrowth == GrowInsert

SpecGrowth == InitGrowth /\ [][NextGrowth]_vars

\* ------------------------------------------------------- the copy driver
MaxCopySize == 2

RoomCopy(m) == size(maps[m]) < MaxCopySize

\* s is populated, c is copy-constructed from s, then c is mutated freely.
InitCopy ==
  /\ alive = {"s"}
  /\ maps = [m \in Maps |-> IF m = "s" THEN DefaultMap(m) ELSE Raw(DefaultMaxLoadFactor)]
  /\ node = << >>
  /\ crashed = FALSE
  /\ ret = Void
  /\ pc = "copy"
  /\ arg = << >>

SrcInsert == \E k \in Keys, v \in Vals :
  "c" \notin alive /\ RoomCopy("s") /\ Insert("s", k, v) /\ UNCHANGED <<pc, arg>>

SrcSetMaxLoadFactor == \E f \in LoadFactors :
  "c" \notin alive /\ SetMaxLoadFactor("s", f) /\ UNCHANGED <<pc, arg>>

SrcRehash == \E n \in Args :
  "c" \notin alive /\ Rehash("s", n) /\ UNCHANGED <<pc, arg>>

Copy == CopyConstruct("c", "s") /\ UNCHANGED <<pc, arg>>

CopyFails == \E i \in 1 .. size(maps["s"]) :
  CopyConstructFails("c", "s", i) /\ UNCHANGED <<pc, arg>>

CopyInsert == \E k \in Keys, v \in Vals :
  RoomCopy("c") /\ Insert("c", k, v) /\ UNCHANGED <<pc, arg>>

CopyErase == \E pos \in Range(maps["c"].value_list) :
  Erase("c", pos) /\ UNCHANGED <<pc, arg>>

CopyIndex == \E k \in Keys :
  RoomCopy("c") /\ Index("c", k) /\ UNCHANGED <<pc, arg>>

CopyRehash == \E n \in Args : Rehash("c", n) /\ UNCHANGED <<pc, arg>>

CopyReserve == \E n \in Args : Reserve("c", n) /\ UNCHANGED <<pc, arg>>

CopyWriteValue == \E h \in Range(maps["c"].value_list), v \in Vals \cup {DefaultVal} :
  WriteValue("c", h, v) /\ UNCHANGED <<pc, arg>>

\* Any call that mutates c.
MutateCopy ==
  \/ CopyInsert
  \/ CopyErase
  \/ CopyIndex
  \/ CopyRehash
  \/ CopyReserve
  \/ CopyWriteValue

NextCopy ==
  \/ SrcInsert
  \/ SrcSetMaxLoadFactor
  \/ SrcRehash
  \/ Copy
  \/ CopyFails
  \/ MutateCopy

SpecCopy == InitCopy /\ [][NextCopy]_vars

\* ------------------------------------------------------- the move driver
MaxMoveSize == 3

\* The two maps hold at most MaxMoveSize entries together.
RoomMove == size(maps["s"]) + size(maps["c"]) < MaxMoveSize

\* s is built by any calls (pc = "run"); c is move-constructed from s
\* ("moved"); s, now empty, is filled again; then one map is move-assigned
\* to the other ("assigned") or to itself ("self"), or copy-assigned
\* ("copied"), or destroyed ("destroyed"), after which s may be filled
\* further.
InitMove ==
  /\ alive = {"s"}
  /\ maps = [m \in Maps |-> IF m = "s" THEN DefaultMap(m) ELSE Raw(DefaultMaxLoadFactor)]
  /\ node = << >>
  /\ crashed = FALSE
  /\ ret = Void
  /\ pc = "run"
  /\ arg = << >>

MvInsert == \E k \in Keys, v \in Vals :
  /\ pc \in {"run", "moved", "copied", "destroyed"}
  /\ RoomMove /\ Insert("s", k, v) /\ UNCHANGED <<pc, arg>>

MvErase == \E pos \in Range(maps["s"].value_list) :
  pc = "run" /\ Erase("s", pos) /\ UNCHANGED <<pc, arg>>

MvRehash == \E n \in Args :
  pc = "run" /\ Rehash("s", n) /\ UNCHANGED <<pc, arg>>

MvSetMaxLoadFactor == \E f \in LoadFactors :
  pc = "run" /\ SetMaxLoadFactor("s", f) /\ UNCHANGED <<pc, arg>>

MvConstruct ==
  pc = "run" /\ MoveConstruct("c", "s") /\ pc' = "moved" /\ UNCHANGED arg

MvAssign == \E d, o \in Maps :
  /\ pc = "moved"
  /\ MoveAssign(d, o)
  /\ pc' = (IF d = o THEN "self" ELSE "assigned")
  /\ UNCHANGED arg

\* One map is copy-assigned to the other or to itself ("copied"); the
\* copy of an entry may fail.
MvCopyAssign == \E d, o \in Maps :
  /\ pc = "moved"
  /\ \/ CopyAssign(d, o)
     \/ \E i \in 1 .. size(maps[o]) : CopyAssignFails(d, o, i)
  /\ pc' = "copied"
  /\ UNCHANGED arg

\* One of the two maps is destroyed ("destroyed").
MvDestroy == \E m \in Maps :
  /\ pc = "moved"
  /\ Destroy(m)
  /\ pc' = "destroyed"
  /\ UNCHANGED arg

NextMove ==
  \/ MvInsert
  \/ MvErase
  \/ MvRehash
  \/ MvSetMaxLoadFactor
  \/ MvConstruct
  \/ MvAssign
  \/ MvCopyAssign
  \/ MvDestroy

SpecMove == InitMove /\ [][NextMove]_vars

\* ------------------------------------------------------- the call driver
\* Any calls on s, lookups and failing appends among them.  pc names the kind
\* of the last call: "find", "failed" (an append that threw), or "run".
InitCalls ==
  /\ alive = {"s"}
  /\ maps = [m \in Maps |-> IF m = "s" THEN DefaultMap(m) ELSE Raw(DefaultMaxLoadFactor)]
  /\ node = << >>
  /\ crashed = FALSE
  /\ ret = Void
  /\ pc = "run"
  /\ arg = << >>

ClInsert == \E k \in Keys, v \in Vals :
  Room("s") /\ Insert("s", k, v) /\ pc' = "run" /\ UNCHANGED arg

ClErase == \E pos \in Range(maps["s"].value_list) :
  Erase("s", pos) /\ pc' = "run" /\ UNCHANGED arg

ClRehash == \E n \in Args : Rehash("s", n) /\ pc' = "run" /\ UNCHANGED arg

ClSetMaxLoadFactor == \E f \in LoadFactors :
  SetMaxLoadFactor("s", f) /\ pc' = "run" /\ UNCHANGED arg

ClFind == \E k \in Keys : Find("s", k) /\ pc' = "find" /\ UNCHANGED arg

ClInsertFails == \E k \in Keys, v \in Vals :
  InsertFails("s", k, v) /\ pc' = "failed" /\ UNCHANGED arg

NextCalls ==
  \/ ClInsert
  \/ ClErase
  \/ ClRehash
  \/ ClSetMaxLoadFactor
  \/ ClFind
  \/ ClInsertFails

SpecCalls == InitCalls /\ [][NextCalls]_vars

\* ----------------------------------------------------- the handle driver
\* s is built by any calls (pc = "run"); one insert returns a handle, which
\* the caller keeps in arg with the key and value it reads through it
\* ("held"); then other keys are inserted, without a rehash, and other
\* entries are erased.  arg also notes which kinds of call were made since.
\* Through a handle that is no entry the caller reads the key the scan
\* matched and whatever value the memory there holds.
InitHandle ==
  /\ alive = {"s"}
  /\ maps = [m \in Maps |-> IF m = "s" THEN DefaultMap(m) ELSE Raw(DefaultMaxLoadFactor)]
  /\ node = << >>
  /\ crashed = FALSE
  /\ ret = Void
  /\ pc = "run"
  /\ arg = [h |-> NoHandle, k |-> 0, v |-> 0, inserted |-> FALSE, erased |-> FALSE]

HdInsert == \E k \in Keys, v \in Vals :
  pc = "run" /\ Room("s") /\ Insert("s", k, v) /\ UNCHANGED <<pc, arg>>

HdErase == \E pos \in Range(maps["s"].value_list) :
  pc = "run" /\ Erase("s", pos) /\ UNCHANGED <<pc, arg>>

HdRehash == \E n \in Args :
  pc = "run" /\ Rehash("s", n) /\ UNCHANGED <<pc, arg>>

HdTake == \E k \in Keys, v \in Vals :
  /\ pc = "run"
  /\ Room("s") /\ Insert("s", k, v)
  /\ ret'.kind = "pair"
  /\ pc' = "held"
  /\ \E read \in IF ret'.h \in DOMAIN node' THEN {node'[ret'.h]}
                  ELSE {[key |-> k, val |-> x] : x \in Vals \cup {DefaultVal}} :
       arg' = [arg EXCEPT !.h = ret'.h, !.k = read.key, !.v = read.val]

\* insert of another key that triggers no rehash.
HdInsertOther == \E k \in Keys \ {arg.k}, v \in Vals :
  /\ pc = "held" /\ Callable("s")
  /\ Room("s")
  /\ bucket_count(maps["s"]) > 0 /\ ~ExceedsMaxLoad(maps["s"])
  /\ \E st \in insert(State, "s", k, v) :
       /\ Return(st)
       /\ arg' = [arg EXCEPT !.h = RenamedHandle(st, @), !.inserted = TRUE]
  /\ UNCHANGED pc

\* erase of another entry.
HdEraseOther == \E pos \in Range(maps["s"].value_list) \ {arg.h} :
  /\ pc = "held" /\ Callable("s")
  /\ LET st == erase(State, "s", pos)
     IN /\ Return(st)
        /\ arg' = [arg EXCEPT !.h = RenamedHandle(st, @), !.erased = TRUE]
  /\ UNCHANGED pc

NextHandle ==
  \/ HdInsert
  \/ HdErase
  \/ HdRehash
  \/ HdTake
  \/ HdInsertOther
  \/ HdEraseOther

SpecHandle == InitHandle /\ [][NextHandle]_vars

\* ------------------------------------------------------ the chain driver
MaxChainSize == 4

\* Keys of a map with the default bucket count: 0 and kDefaultBucketCount
\* share bucket 0, 1 has bucket 1.
ChainKeys == {0, 1, kDefaultBucketCount}

\* A default map used by insert and erase alone.
InitChain ==
  /\ alive = {"s"}
  /\ maps = [m \in Maps |-> IF m = "s" THEN DefaultMap(m) ELSE Raw(DefaultMaxLoadFactor)]
  /\ node = << >>
  /\ crashed = FALSE
  /\ ret = Void
  /\ pc = "chain"
  /\ arg = << >>

ChInsert == \E k \in ChainKeys, v \in Vals :
  /\ size(maps["s"]) < MaxChainSize
  /\ Insert("s", k, v)
  /\ UNCHANGED <<pc, arg>>

ChErase == \E pos \in Range(maps["s"].value_list) :
  Erase("s", pos) /\ UNCHANGED <<pc, arg>>

NextChain ==
  \/ ChInsert
  \/ ChErase

SpecChain == InitChain /\ [][NextChain]_vars

\* ---------------------------------------------------- the emplace driver
\* Calls of emplace, failing or not, between the calls of the call driver;
\* arg is the account of the temporary of the last emplace.
ClEmplace == \E k \in Keys, v \in Vals, fail \in Failures :
  /\ Room("s")
  /\ Callable("s")
  /\ \E e \in emplace(State, "s", k, v, fail) :
       /\ Return(e.st)
       /\ arg' = [tmp |-> e.tmp, fail |-> fail]
  /\ pc' = "emplaced"

ClResume ==
  /\ pc = "emplaced"
  /\ ~crashed
  /\ pc' = "run"
  /\ arg' = << >>
  /\ UNCHANGED <<alive, maps, node, crashed, ret>>

NextEmplace ==
  \/ pc = "run" /\ ClInsert
  \/ pc = "run" /\ ClErase
  \/ pc = "run" /\ ClRehash
  \/ pc = "run" /\ ClEmplace
  \/ ClResume

SpecEmplace == InitCalls /\ [][NextEmplace]_vars

\* ------------------------------------------------------ the range driver
\* The handle at position i of m's list, past-the-end after the last.
HandleAt(st, m, i) ==
  IF i > Len(st.maps[m].value_list) THEN End(m) ELSE st.maps[m].value_list[i]

\* erase(first, last) on the range of the positions first .. last - 1.
RgEraseRange == \E i \in 1 .. size(maps["s"]) + 1 :
                \E j \in i .. size(maps["s"]) + 1 :
  /\ Callable("s")
  /\ Return(erase_range(State, "s", HandleAt(State, "s", i), HandleAt(State, "s", j)))
  /\ pc' = "erased"
  /\ arg' = [first |-> i, last |-> j]

\* The longest range of pairs one insert(first, last) is given.
MaxRangeLen == 2

\* insert(first, last) over a range of up to MaxRangeLen pairs of the
\* chain keys, repeated keys included.
RgInsertRange == \E n \in 0 .. MaxRangeLen :
                 \E range \in [1 .. n -> [key : ChainKeys, val : Vals]] :
  /\ size(maps["s"]) + n <= MaxChainSize
  /\ InsertRange("s", range)
  /\ UNCHANGED <<pc, arg>>

NextRange ==
  \/ ChInsert
  \/ RgInsertRange
  \/ RgEraseRange

SpecRange == InitChain /\ [][NextRange]_vars

\* ---------------------------------------------------- the reserve driver
MaxReserve == 4

\* reserve(n) with n > size(): arg remembers n, whether rehash was called
\* since and whether s was assigned to or moved from since.  Once the
\* second map c exists, s is only inserted into, assigned to and moved from.
RsReserve == \E n \in 1 .. MaxReserve :
  /\ "c" \notin alive
  /\ n > size(maps["s"])
  /\ Reserve("s", n)
  /\ pc' = "reserved"
  /\ arg' = [n |-> n, rehashed |-> FALSE, assigned |-> FALSE]

RsRehash == \E n \in Args :
  /\ "c" \notin alive
  /\ Rehash("s", n)
  /\ pc' = pc
  /\ arg' = IF pc = "reserved" THEN [arg EXCEPT !.rehashed = TRUE] ELSE arg

\* A change of max_load_factor ends the reservation.
RsSetMaxLoadFactor == \E f \in LoadFactors :
  /\ "c" \notin alive
  /\ SetMaxLoadFactor("s", f)
  /\ IF f = maps["s"].max_load_factor
     THEN UNCHANGED <<pc, arg>>
     ELSE pc' = "run" /\ arg' = << >>

\* The most entries s holds when it is moved from.
MaxMovedSize == 1

\* Under a reservation the second map c is move-constructed from s; later
\* s is copy-assigned or move-assigned from c, or c is move-assigned from s.
\* Each of them replaces the bucket vector of s; c has the max_load_factor
\* of s, so none of them changes it.
RsAssign ==
  /\ pc = "reserved"
  /\ \/ ~arg.rehashed /\ size(maps["s"]) <= MaxMovedSize /\ MoveConstruct("c", "s")
     \/ CopyAssign("s", "c")
     \/ MoveAssign("s", "c")
     \/ size(maps["s"]) <= MaxMovedSize /\ MoveAssign("c", "s")
  /\ pc' = pc
  /\ arg' = [arg EXCEPT !.assigned = TRUE]

NextReserve ==
  \/ DoInsert
  \/ "c" \notin alive /\ DoErase
  \/ RsReserve
  \/ RsRehash
  \/ RsSetMaxLoadFactor
  \/ RsAssign

SpecReserve == Init /\ [][NextReserve]_vars

\* ================================================================ claims
KeyAt(st, m, i) == st.node[st.maps[m].value_list[i]].key

Entries(st, m) == 1 .. Len(st.maps[m].value_list)

\* Entry-store positions of the run of bucket b: count positions from head.
Run(st, m, b) ==
  LET B == st.maps[m].bucket_vector[b]
      p == Pos(st.maps[m].value_list, B.begin)
  IN IF B.size = 0 \/ p = 0 THEN {} ELSE p .. (p + B.size - 1)

BucketOf(st, m, i) == get_hash(KeyAt(st, m, i), bucket_count(st.maps[m])) + 1

RECURSIVE SumCounts(_, _)
SumCounts(bv, b) == IF b > Len(bv) THEN 0 ELSE bv[b].size + SumCounts(bv, b + 1)

\* C1: in every reachable state every live entry lies inside the run of
\* count consecutive positions starting at head of the bucket its key hashes
\* to, and the runs of all buckets cover every live entry exactly once.
C1_ChainingInvariant ==
  \A m \in alive : \A i \in Entries(State, m) :
    /\ i \in Run(State, m, BucketOf(State, m, i))
    /\ \A b \in 1 .. bucket_count(maps[m]) :
         i \in Run(State, m, b) => b = BucketOf(State, m, i)

\* C2: in every reachable state find(k) returns a handle to a live entry
\* with key k, for every key k some live entry holds.
C2_FindFindsPresentKeys ==
  ~crashed =>
    \A m \in alive : \A i \in Entries(State, m) :
      \A r \in find(State, m, KeyAt(State, m, i)) :
        /\ r.kind = "found"
        /\ Pos(maps[m].value_list, r.h) > 0
        /\ node[r.h].key = KeyAt(State, m, i)

\* C3: in every reachable state no two live entries of a map have equal keys.
C3_UniqueKeys ==
  \A m \in alive : \A i, j \in Entries(State, m) :
    i # j => KeyAt(State, m, i) # KeyAt(State, m, j)

\* C4: from any reachable map, insert(k, v1) followed at once by
\* insert(k, v2): the second call returns inserted = false, adds no entry and
\* leaves the value stored for k as the first call left it.
C4_SecondInsertIsNoOp ==
  LET \* The values stored in map m of st under key k, in entry-store order.
      ValuesOf(st, m, k) ==
        LET l == st.maps[m].value_list
        IN [i \in 1 .. Len(SelectSeq(l, LAMBDA h : st.node[h].key = k)) |->
              st.node[SelectSeq(l, LAMBDA h : st.node[h].key = k)[i]].val]
  IN
  ~crashed =>
    \A m \in alive : \A k \in Keys : \A v1, v2 \in Vals :
      \A s1 \in insert(State, m, k, v1) :
        ~s1.crashed =>
          \A s2 \in insert(s1, m, k, v2) :
            /\ ~s2.crashed
            /\ s2.ret.ok = FALSE
            /\ size(s2.maps[m]) = size(s1.maps[m])
            /\ ValuesOf(s2, m, k) = ValuesOf(s1, m, k)

\* C5: in every reachable state with bucket_count > 0, size() equals the sum
\* of the counts of all buckets and the number of live entries in the store.
C5_SizeIsSumOfCounts ==
  \A m \in alive :
    bucket_count(maps[m]) > 0 =>
      /\ size(maps[m]) = SumCounts(maps[m].bucket_vector, 1)
      /\ size(maps[m]) = Cardinality(Range(maps[m].value_list) \cap DOMAIN node)

\* Some bucket counts two entries, after an erase returned.
C5_Witness ==
  /\ ret.kind = "iter" /\ ~crashed
  /\ size(maps["s"]) >= 2
  /\ \E b \in 1 .. bucket_count(maps["s"]) : maps["s"].bucket_vector[b].size >= 2

\* C6: when insert or emplace returns, size() / bucket_count() as an exact
\* ratio, and the value of load_factor(), are at most max_load_factor().
C6_LoadWithinMaxAfterInsert ==
  [][\A m \in alive :
       ((\E k \in Keys, v \in Vals : Insert(m, k, v) \/ Emplace(m, k, v))
          /\ ~crashed')
       => LET M == maps'[m]
          IN /\ size(M) * M.max_load_factor[2]
                  <= M.max_load_factor[1] * bucket_count(M)
             /\ ~ExceedsMaxLoad(M)]_vars

\* C7: for a key k no live entry holds, erase(insert(k, v).handle) leaves
\* size() as before the insert, and find(k) then returns not-found.
C7_InsertEraseRoundTrip ==
  ~crashed =>
    \A m \in alive : \A k \in Keys : \A v \in Vals :
      (\A i \in Entries(State, m) : KeyAt(State, m, i) # k) =>
        \A s1 \in insert(State, m, k, v) :
          (~s1.crashed /\ s1.ret.ok) =>
            LET s2 == erase(s1, m, s1.ret.h)
            IN /\ size(s2.maps[m]) = size(maps[m])
               /\ \A r \in find(s2, m, k) : r.kind = "notfound"

\* C8: from an empty map, insert(a, v1) returns (h, true); insert(a, v2)
\* returns the same h with inserted = false; at(a) is v1; after erase(h),
\* find(a) returns not-found and size() is 0.
C8_Scenario ==
  /\ ~crashed
  /\ pc = "inserted" =>
       /\ ret = RetVal("pair", arg.h, TRUE, 0)
       /\ Pos(maps["s"].value_list, arg.h) > 0
       /\ node[arg.h] = [key |-> arg.a, val |-> arg.v1]
  /\ pc = "again" => ret = RetVal("pair", arg.h, FALSE, 0)
  /\ pc = "at" => ret.kind = "ref" /\ ret.v = arg.v1
  /\ pc = "found" =>
       /\ ret = RetVal("iter", End("s"), TRUE, 0)
       /\ size(maps["s"]) = 0

\* The scenario ran to its end, with two different values.
C8_Witness == pc = "found" /\ arg.v1 # arg.v2 /\ arg.a >= kDefaultBucketCount

\* C9: inserting N = 10 * default_bucket_count distinct keys one by one into
\* an empty map makes at least three growth rehashes; bucket_count() never
\* decreases on the way and ends above the default bucket count.
C9_GrowthScenario ==
  /\ arg.monotone
  /\ ~crashed
  /\ arg.i = GrowthN =>
       /\ arg.grown >= 3
       /\ bucket_count(maps["s"]) > kDefaultBucketCount
       /\ size(maps["s"]) = GrowthN

C9_Witness == arg.i = GrowthN /\ arg.grown = 3 /\ arg.stride > 1

\* What a map object holds: its entries (keys, values, order), its bucket
\* descriptors and its max_load_factor.
Contents(st, m) ==
  [entries |-> [i \in Entries(st, m) |->
                  IF st.maps[m].value_list[i] \in DOMAIN st.node
                  THEN st.node[st.maps[m].value_list[i]]
                  ELSE [key |-> -1, val |-> -1]],
   value_list |-> st.maps[m].value_list,
   bucket_vector |-> st.maps[m].bucket_vector,
   max_load_factor |-> st.maps[m].max_load_factor]

StateNext == [alive |-> alive', maps |-> maps', node |-> node',
              crashed |-> crashed', ret |-> ret']

\* C10: once c is copy-constructed from s, no insert, erase, operator[],
\* rehash, reserve or value write applied to c changes s's entries, bucket
\* descriptors or max_load_factor.
C10_CopyIsIndependent ==
  [][("c" \in alive /\ MutateCopy) =>
       Contents(StateNext, "s") = Contents(State, "s")]_vars

\* c was copied from a populated s and then mutated.
C10_Witness ==
  /\ {"s", "c"} \subseteq alive /\ ~crashed
  /\ size(maps["s"]) = MaxCopySize
  /\ size(maps["c"]) = MaxCopySize
  /\ \E i \in Entries(State, "c") :
       \A j \in Entries(State, "s") :
         node[maps["c"].value_list[i]] # node[maps["s"].value_list[j]]

\* The number of live entries of map m in st that hold key k with value v.
CountOf(st, m, k, v) ==
  Cardinality({i \in Entries(st, m) :
                 st.node[st.maps[m].value_list[i]] = [key |-> k, val |-> v]})

HasKey(st, m, k) == \E i \in Entries(st, m) : KeyAt(st, m, i) = k

\* C11: the map copy-constructed from any reachable source s has size()
\* equal to s.size() and holds exactly the key/value pairs of s's live
\* entries, each as often as s holds it.
C11_CopyHoldsSourceEntries ==
  ~crashed =>
    \A u \in copy_construct(State, "c", "s") :
      /\ ~u.crashed
      /\ size(u.maps["c"]) = size(maps["s"])
      /\ \A k \in Keys, v \in Vals \cup {DefaultVal} :
           CountOf(u, "c", k, v) = CountOf(State, "s", k, v)

\* C13: operator[](k) on a map with a live entry for k returns that entry's
\* value and leaves size() and the entries alone; otherwise it appends exactly
\* one entry (k, T{}) and returns the new entry's value.
C13_IndexReturnsOrAddsOne ==
  ~crashed =>
    \A m \in alive : \A k \in Keys : \A u \in index(State, m, k) :
      LET l == maps[m].value_list
      IN /\ ~u.crashed
         /\ u.ret.kind = "ref"
         /\ IF HasKey(State, m, k)
            THEN /\ u.maps[m].value_list = l
                 /\ u.node = node
                 /\ Pos(l, u.ret.h) > 0
                 /\ node[u.ret.h].key = k
                 /\ u.ret.v = node[u.ret.h].val
            ELSE /\ u.maps[m].value_list = Append(l, u.ret.h)
                 /\ Pos(l, u.ret.h) = 0
                 /\ u.node[u.ret.h] = [key |-> k, val |-> DefaultVal]
                 /\ \A h \in Range(l) : u.node[h] = node[h]
                 /\ u.ret.v = DefaultVal

\* C14: at(k) on a map with no live entry for k throws std::out_of_range and
\* leaves the entries, the bucket vector and max_load_factor as they were.
C14_AtAbsentKeyThrows ==
  ~crashed =>
    \A m \in alive : \A k \in Keys :
      ~HasKey(State, m, k) =>
        \A u \in at(State, m, k) :
          /\ ~u.crashed
          /\ u.ret.kind = "throw"
          /\ u.maps = maps
          /\ u.node = node

\* u is st after the map o was moved into d: d holds o's former entries in
\* o's order, under o's former bucket descriptors (a past-the-end head stays
\* a past-the-end head), and o is empty and valid, in the state clear()
\* leaves: no entry, its max_load_factor kept, ceil(default bucket count /
\* max_load_factor) buckets, each with count 0 and the past-the-end head,
\* which is the state of a fresh map when max_load_factor is the default;
\* no key is found in it, and insert(k, v) adds the entry, which find(k)
\* then returns.
MovedFrom(st, u, d, o) ==
  LET src == st.maps[o]
      dst == u.maps[d]
  IN /\ ~u.crashed
     /\ {d, o} \subseteq u.alive
     /\ dst.value_list = src.value_list
     /\ \A h \in Range(src.value_list) : u.node[h] = st.node[h]
     /\ bucket_count(dst) = bucket_count(src)
     /\ \A b \in 1 .. bucket_count(src) :
          /\ dst.bucket_vector[b].size = src.bucket_vector[b].size
          /\ \/ dst.bucket_vector[b].begin = src.bucket_vector[b].begin
             \/ /\ src.bucket_vector[b].begin = End(o)
                /\ dst.bucket_vector[b].begin = End(d)
     /\ size(u.maps[o]) = 0
     /\ bucket_count(u.maps[o]) >= 1
     /\ \A b \in 1 .. bucket_count(u.maps[o]) : u.maps[o].bucket_vector[b].size = 0
     /\ u.maps[o].max_load_factor = src.max_load_factor
     /\ bucket_count(u.maps[o]) = CeilDiv(kDefaultBucketCount, src.max_load_factor)
     /\ \A b \in 1 .. bucket_count(u.maps[o]) :
          u.maps[o].bucket_vector[b] = Bucket(End(o), 0)
     /\ src.max_load_factor = DefaultMaxLoadFactor => u.maps[o] = DefaultMap(o)
     /\ \A k \in Keys :
          /\ find(u, o, k) = {[kind |-> "notfound", h |-> End(o)]}
          /\ \A v \in Vals : \A w \in insert(u, o, k, v) :
               /\ ~w.crashed
               /\ w.ret.kind = "pair" /\ w.ret.ok
               /\ w.maps[o].value_list = <<w.ret.h>>
               /\ w.node[w.ret.h] = [key |-> k, val |-> v]
               /\ find(w, o, k) = {[kind |-> "found", h |-> w.ret.h]}

C15_FindIsPure ==
  [][ClFind
       => /\ maps' = maps
          /\ node' = node
          /\ alive' = alive]_vars

\* find returned an entry of a map whose load is above max_load_factor.
C15_Witness ==
  /\ pc = "find" /\ ~crashed
  /\ ret.kind = "iter" /\ Pos(maps["s"].value_list, ret.h) > 0
  /\ ExceedsMaxLoad(maps["s"])

\* C19: when the append of the new entry fails during insert or emplace, the
\* exception leaves the call with the list and its entries as before the
\* call, and with every bucket counting exactly the live entries that hash
\* to it.
C19_FailedAppendLeavesMapConsistent ==
  [][(ClInsertFails /\ ret'.kind = "throw")
       => /\ maps'["s"].value_list = maps["s"].value_list
          /\ node' = node
          /\ ~crashed'
          /\ LET M == maps'["s"]
             IN \A b \in 1 .. bucket_count(M) :
                  M.bucket_vector[b].size =
                    Cardinality({i \in 1 .. Len(M.value_list) :
                                   get_hash(node'[M.value_list[i]].key,
                                            bucket_count(M)) + 1 = b})]_vars

\* An append failed in a map that holds a bucket of two entries.
C19_Witness ==
  /\ pc = "failed" /\ ret.kind = "throw"
  /\ size(maps["s"]) >= 2
  /\ \E b \in 1 .. bucket_count(maps["s"]) : maps["s"].bucket_vector[b].size = 2

\* C16: whenever insert or emplace returns inserted = false, the handle it
\* returns is a live entry of the map whose key is the argument key, and the
\* call left the list and every entry's key and value as they were.
C16_DuplicateInsertIsNoOp ==
  ~crashed =>
    \A m \in alive : \A k \in Keys : \A v \in Vals :
      \A u \in insert(State, m, k, v) :
        (~u.crashed /\ ~u.ret.ok) =>
          /\ Pos(maps[m].value_list, u.ret.h) > 0
          /\ node[u.ret.h].key = k
          /\ u.maps[m].value_list = maps[m].value_list
          /\ u.node = node

\* C17: erase(h) for a live handle h removes exactly the entry h refers to:
\* size() drops by one, the other entries keep key, value and relative
\* order, bucket_count() is unchanged, and the call returns the handle of
\* the entry that followed h, or past-the-end.
C17_EraseRemovesExactlyOne ==
  ~crashed =>
    \A m \in alive : \A i \in Entries(State, m) :
      LET l == maps[m].value_list
          u == erase(State, m, l[i])
      IN /\ ~u.crashed
         /\ size(u.maps[m]) = size(maps[m]) - 1
         /\ u.maps[m].value_list = SelectSeq(l, LAMBDA h : h # l[i])
         /\ DOMAIN u.node = DOMAIN node \ {l[i]}
         /\ \A h \in DOMAIN u.node : u.node[h] = node[h]
         /\ bucket_count(u.maps[m]) = bucket_count(maps[m])
         /\ u.ret.kind = "iter"
         /\ u.ret.h = (IF i = Len(l) THEN End(m) ELSE l[i + 1])

\* erase returned the handle of a following entry, in a map that still
\* holds two entries.
C17_Witness ==
  /\ ret.kind = "iter" /\ ~crashed
  /\ size(maps["s"]) = MaxSize - 1
  /\ Pos(maps["s"].value_list, ret.h) > 0

\* C18: a handle returned by insert keeps referring to the same live entry,
\* with the same key and value, through any inserts of other keys that
\* trigger no rehash and any erasures of other entries.
C18_HandleStaysValid ==
  pc = "held" =>
    /\ Pos(maps["s"].value_list, arg.h) > 0
    /\ node[arg.h] = [key |-> arg.k, val |-> arg.v]

\* Since the handle was returned another key was inserted and another entry
\* was erased, and an entry stands before the held one in the list.
C18_Witness ==
  /\ pc = "held" /\ ~crashed
  /\ arg.inserted /\ arg.erased
  /\ Pos(maps["s"].value_list, arg.h) > 1

\* What a failed copy construction leaves of the map it was building: no
\* entry, and n buckets, all empty; the source and its entries untouched.
ResetTo(n) ==
  /\ ~crashed'
  /\ "c" \notin alive'
  /\ size(maps'["c"]) = 0
  /\ bucket_count(maps'["c"]) = n
  /\ \A b \in 1 .. bucket_count(maps'["c"]) :
       maps'["c"].bucket_vector[b] = Bucket(End("c"), 0)
  /\ node' = node
  /\ maps'["s"] = maps["s"]

\* C20, as stated: if copying an entry fails part-way through copy
\* construction, the map being built is reset to size 0, the default bucket
\* count and all buckets empty before the failure is propagated.
C20_FailedCopyResetsToDefault ==
  [][(CopyFails /\ ret'.kind = "throw") => ResetTo(kDefaultBucketCount)]_vars

\* C20, amended: the map being built is reset to size 0, with
\* ceil(default bucket count / max_load_factor) buckets for the
\* max_load_factor copied from the source, at least one and the default
\* bucket count when that max_load_factor is the default, all empty, before
\* the failure is propagated; it is never left half-populated.
C20_FailedCopyResetsToEmpty ==
  [][(CopyFails /\ ret'.kind = "throw")
       => /\ maps'["c"].max_load_factor = maps["s"].max_load_factor
          /\ ResetTo(CeilDiv(kDefaultBucketCount, maps["s"].max_load_factor))
          /\ bucket_count(maps'["c"]) >= 1
          /\ maps["s"].max_load_factor = DefaultMaxLoadFactor
               => bucket_count(maps'["c"]) = kDefaultBucketCount]_vars

\* A copy of a full source with max_load_factor 2 failed.
C20_Witness ==
  /\ ret.kind = "throw" /\ "c" \notin alive
  /\ size(maps["s"]) = MaxCopySize
  /\ maps["s"].max_load_factor = <<2, 1>>
  /\ bucket_count(maps["c"]) = 4

\* The positions of the entries of list l that hash to bucket b of n.
PositionsOf(l, nd, b, n) ==
  {i \in 1 .. Len(l) : get_hash(nd[l[i]].key, n) + 1 = b}

\* C24: when insert adds an entry, the entry is placed right after the last
\* entry of its bucket's run: if the entries hashing to the bucket were
\* consecutive in the list before the call, they are consecutive after it.
C24_InsertKeepsBucketConsecutive ==
  LET Consecutive(S) == \A i, j \in S : \A x \in i .. j : x \in S
  IN
  ~crashed =>
    \A k \in ChainKeys : \A v \in Vals : \A u \in insert(State, "s", k, v) :
      (~u.crashed /\ u.ret.ok) =>
        LET n == bucket_count(u.maps["s"])
            b == get_hash(k, n) + 1
        IN Consecutive(PositionsOf(maps["s"].value_list, node, b, n))
             => Consecutive(PositionsOf(u.maps["s"].value_list, u.node, b, n))

\* C25: after any sequence of insert and erase, the head of every bucket
\* with count > 0 is a live entry of the map's list.
C25_NoDanglingHead ==
  \A m \in alive : \A b \in 1 .. bucket_count(maps[m]) :
    maps[m].bucket_vector[b].size > 0
      => Pos(maps[m].value_list, maps[m].bucket_vector[b].begin) > 0

\* C30: in every reachable state, every bucket with count 0 has the
\* past-the-end handle of the map's own list as its head.
C30_EmptyBucketHeadIsEnd ==
  \A m \in alive : \A b \in 1 .. bucket_count(maps[m]) :
    maps[m].bucket_vector[b].size = 0
      => maps[m].bucket_vector[b].begin = End(m)

\* C22: after max_load_factor(f) returns, the occupancy satisfies the new
\* setting: size() <= f * bucket_count().
C22_SetterRestoresLoad ==
  [][(DoSetMaxLoadFactor /\ ~crashed')
       => size(maps'["s"]) * maps'["s"].max_load_factor[2]
            <= maps'["s"].max_load_factor[1] * bucket_count(maps'["s"])]_vars

\* C23: load_factor() returns the exact ratio size() / bucket_count(): the
\* returned number times bucket_count() is size().
C23_LoadFactorIsExactRatio ==
  \A m \in alive :
    bucket_count(maps[m]) > 0
      => load_factor(maps[m]) * bucket_count(maps[m]) = size(maps[m])

\* C27: an insert of a new key that would push size() / bucket_count() above
\* max_load_factor() rehashes to exactly double the bucket count.
C27_InsertDoublesWhenLoadWouldExceed ==
  ~crashed =>
    \A k \in Keys : \A v \in Vals : \A u \in insert(State, "s", k, v) :
      LET M == maps["s"]
      IN (/\ ~u.crashed
          /\ u.ret.ok
          /\ ~HasKey(State, "s", k)
          /\ (size(M) + 1) * M.max_load_factor[2]
               > M.max_load_factor[1] * bucket_count(M))
           => bucket_count(u.maps["s"]) = 2 * bucket_count(M)

\* C26: if every bucket's entries are contiguous before rehash(n) and the
\* resulting bucket count is an integer multiple of the old one, every
\* bucket's entries are contiguous after the rehash.
C26_RehashToMultipleKeepsContiguity ==
  [][LET Contiguous(st, m) ==
           \A i \in Entries(st, m) :
             /\ i \in Run(st, m, BucketOf(st, m, i))
             /\ \A b \in 1 .. bucket_count(st.maps[m]) :
                  i \in Run(st, m, b) => b = BucketOf(st, m, i)
     IN (/\ DoRehash
         /\ ~crashed'
         /\ bucket_count(maps["s"]) > 0
         /\ bucket_count(maps'["s"]) % bucket_count(maps["s"]) = 0
         /\ Contiguous(State, "s"))
          => Contiguous(StateNext, "s")]_vars

\* C28: after rehash(n) the bucket count is max(n, ceil(size() /
\* max_load_factor())), for every n >= 0 in every reachable state.
C28_RehashBucketCount ==
  [][\A n \in Args :
       (Rehash("s", n) /\ ~crashed')
         => LET a == size(maps["s"])
                f == maps["s"].max_load_factor
                ceil == CHOOSE c \in 0 .. a * f[2] :
                          /\ c * f[1] >= a * f[2]
                          /\ c > 0 => (c - 1) * f[1] < a * f[2]
            IN bucket_count(maps'["s"]) = Max(n, ceil)]_vars

\* A rehash lowered the bucket count to the bound given by the size: three
\* entries, requested count at most MaxArg, three buckets.
C28_Witness ==
  /\ ~crashed
  /\ ret.kind = "void"
  /\ size(maps["s"]) = 3
  /\ maps["s"].max_load_factor = <<1, 1>>
  /\ bucket_count(maps["s"]) = 3

\* C29: rehash(n) leaves the list (entries, values, order) unchanged, and
\* each bucket of the new index has count equal to the number of entries
\* hashing to it and head equal to the first such entry in list order,
\* past-the-end when there is none.
C29_RehashRebuildsIndex ==
  [][\A n \in Args :
       (Rehash("s", n) /\ ~crashed')
         => LET l == maps'["s"].value_list
                nb == bucket_count(maps'["s"])
            IN /\ l = maps["s"].value_list
               /\ \A i \in 1 .. Len(l) : node'[l[i]] = node[l[i]]
               /\ \A b \in 1 .. nb :
                    LET S == PositionsOf(l, node', b, nb)
                        B == maps'["s"].bucket_vector[b]
                    IN /\ B.size = Cardinality(S)
                       /\ S = {} => B.begin = End("s")
                       /\ S # {} => /\ Pos(l, B.begin) \in S
                                    /\ \A j \in S : Pos(l, B.begin) <= j]_vars

\* After a rehash to two buckets, bucket 0 counts the keys 0 and 2, which
\* are the first and the third entry of the list, and its head is the first.
C29_Witness ==
  /\ ~crashed
  /\ ret.kind = "void"
  /\ bucket_count(maps["s"]) = 2
  /\ size(maps["s"]) = 3
  /\ KeyAt(State, "s", 1) = 0
  /\ KeyAt(State, "s", 2) = 1
  /\ KeyAt(State, "s", 3) = 2
  /\ maps["s"].bucket_vector[1] = Bucket(maps["s"].value_list[1], 2)
  /\ maps["s"].bucket_vector[2] = Bucket(maps["s"].value_list[2], 1)

\* C21: on every path out of emplace (entry inserted, duplicate found, or a
\* failure in construction, comparison or append) the temporary entry that
\* was allocated is released exactly once: not leaked, not released twice.
C21_TemporaryReleasedOnce ==
  (pc = "emplaced" /\ ~crashed) =>
    /\ arg.tmp.allocated = 1
    /\ arg.tmp.deallocated = 1
    /\ arg.tmp.destroyed <= 1

\* An emplace whose key comparison failed in the scan of a non-empty bucket
\* ended with an exception and the temporary released.
C21_Witness ==
  /\ pc = "emplaced"
  /\ ~crashed
  /\ arg.fail = "compare"
  /\ ret.kind = "throw"
  /\ arg.tmp.constructed
  /\ arg.tmp.deallocated = 1
  /\ size(maps["s"]) >= 1

\* C31: bucket_count() >= 1 in every reachable state of every map, so that
\* hash(key) mod bucket_count and size / bucket_count are always defined.
C31_BucketCountPositive ==
  \A m \in alive : bucket_count(maps[m]) >= 1

\* C32: in every reachable state with bucket_count > 0, the count of each
\* bucket is the number of live entries whose key hashes to the bucket,
\* wherever the entries sit in the list.
C32_CountIsNumberOfEntries ==
  \A m \in alive :
    bucket_count(maps[m]) > 0 =>
      \A b \in 1 .. bucket_count(maps[m]) :
        maps[m].bucket_vector[b].size =
          Cardinality(PositionsOf(maps[m].value_list, node, b,
                                  bucket_count(maps[m])))

\* A bucket counts two entries that are not neighbours in the list: the
\* keys 0 and 2 of two buckets, with key 1 between them.
C32_Witness ==
  /\ ~crashed
  /\ bucket_count(maps["s"]) = 2
  /\ size(maps["s"]) = 3
  /\ maps["s"].bucket_vector[1].size = 2
  /\ get_hash(KeyAt(State, "s", 1), 2) = 0
  /\ get_hash(KeyAt(State, "s", 2), 2) = 1
  /\ get_hash(KeyAt(State, "s", 3), 2) = 0
  /\ ret.kind = "pair" /\ ret.ok

\* C35: a handle other than past-the-end returned by find(k) refers to a
\* live entry of the map whose key equals k.
C35_FindReturnsEntryOfKey ==
  ~crashed =>
    \A m \in alive : \A k \in ChainKeys : \A r \in find(State, m, k) :
      r.kind = "found" =>
        /\ Pos(maps[m].value_list, r.h) > 0
        /\ node[r.h].key = k

\* C38: in emplace the destructor of the temporary entry is run only if
\* its construction completed.
C38_DestroyedOnlyIfConstructed ==
  (pc = "emplaced" /\ arg.tmp.destroyed > 0) => arg.tmp.constructed

\* C33: from the same reachable state emplace(k, v) and insert((k, v))
\* produce the same result: the same inserted flag, a handle to an entry
\* with the same key and value, and the same list, bucket descriptors and
\* bucket count (states compared up to the addresses of the nodes and the
\* heads of the buckets with count 0, which no call reads).
C33_EmplaceEqualsInsert ==
  LET Observed(st) ==
        Renamed([st EXCEPT !.maps["s"].bucket_vector =
                   [b \in DOMAIN @ |-> IF @[b].size = 0
                                       THEN Bucket(End("s"), 0) ELSE @[b]]])
  IN ~crashed =>
       \A k \in ChainKeys : \A v \in Vals :
         \A e \in emplace(State, "s", k, v, "none") :
           \A u \in insert(State, "s", k, v) :
             Observed(e.st) = Observed(u)

\* C37: erase(first, last) removes exactly the entries of the range
\* [first, last) of the list, decrements the count of each removed entry's
\* bucket once per removed entry, leaves the entries outside the range
\* unchanged and in order, and returns a handle equal to last.
C37_EraseRangeRemovesRange ==
  ~crashed =>
    \A i \in 1 .. size(maps["s"]) + 1 : \A j \in i .. size(maps["s"]) + 1 :
      LET l == maps["s"].value_list
          n == bucket_count(maps["s"])
          u == erase_range(State, "s", HandleAt(State, "s", i), HandleAt(State, "s", j))
      IN /\ ~u.crashed
         /\ u.maps["s"].value_list = SubSeq(l, 1, i - 1) \o SubSeq(l, j, Len(l))
         /\ DOMAIN u.node = DOMAIN node \ {l[x] : x \in i .. j - 1}
         /\ \A h \in DOMAIN u.node : u.node[h] = node[h]
         /\ bucket_count(u.maps["s"]) = n
         /\ \A b \in 1 .. n :
              u.maps["s"].bucket_vector[b].size =
                maps["s"].bucket_vector[b].size
                  - Cardinality({x \in i .. j - 1 : get_hash(node[l[x]].key, n) + 1 = b})
         /\ u.ret.kind = "iter"
         /\ u.ret.h = HandleAt(State, "s", j)

\* erase(first, last) removed at least two entries and returned the handle
\* of an entry that is still in the list.
C37_Witness ==
  /\ pc = "erased"
  /\ ~crashed
  /\ arg.last - arg.first >= 2
  /\ ret.kind = "iter"
  /\ Pos(maps["s"].value_list, ret.h) > 0

\* C34 as stated: after reserve(n) with n > size(), no insert made while
\* size() is below n changes the bucket count, provided max_load_factor is
\* not changed in between.
C34_NoRehashAfterReserve ==
  [][(/\ DoInsert
      /\ pc = "reserved"
      /\ size(maps["s"]) < arg.n
      /\ ~crashed')
       => bucket_count(maps'["s"]) = bucket_count(maps["s"])]_vars

\* C34, amended: after reserve(n) with n > size(), no insert made while
\* size() is below n changes the bucket count, provided that in between
\* max_load_factor is not changed, neither rehash nor reserve is called, and
\* the map is neither assigned to nor moved from.
C34_NoRehashAfterReserveUntilRehash ==
  [][(/\ DoInsert
      /\ pc = "reserved"
      /\ ~arg.rehashed
      /\ ~arg.assigned
      /\ size(maps["s"]) < arg.n
      /\ ~crashed')
       => bucket_count(maps'["s"]) = bucket_count(maps["s"])]_vars

\* Two entries were inserted under a reservation for three, in the two
\* buckets that reserve(3) builds for max_load_factor 2.
C34_Witness ==
  /\ pc = "reserved"
  /\ ~crashed
  /\ ~arg.rehashed
  /\ ~arg.assigned
  /\ arg.n = 3
  /\ maps["s"].max_load_factor = <<2, 1>>
  /\ bucket_count(maps["s"]) = 2
  /\ size(maps["s"]) = 2
  /\ ret.kind = "pair" /\ ret.ok

\* C36: copy assignment a = b makes a hold a copy of b's entries and leaves
\* b unchanged; if copying b fails, a keeps its entries, bucket index and
\* max_load_factor; self-assignment changes nothing.  (a is a
\* default-constructed map, b the map s.)
C36_CopyAssign ==
  ~crashed =>
    LET st0 == [State EXCEPT !.alive = @ \cup {"c"}, !.maps["c"] = DefaultMap("c")]
    IN /\ \A u \in copy_assign(st0, "c", "s") :
            /\ ~u.crashed
            /\ size(u.maps["c"]) = size(maps["s"])
            /\ \A k \in Keys, v \in Vals \cup {DefaultVal} :
                 CountOf(u, "c", k, v) = CountOf(State, "s", k, v)
            /\ Contents(u, "s") = Contents(State, "s")
       /\ \A i \in 1 .. size(maps["s"]) :
            \A u \in copy_assign_fails(st0, "c", "s", i) :
              /\ ~u.crashed
              /\ u.ret.kind = "throw"
              /\ Contents(u, "c") = Contents(st0, "c")
              /\ Contents(u, "s") = Contents(State, "s")
       /\ \A u \in copy_assign(State, "s", "s") :
            Contents(u, "s") = Contents(State, "s")

====
